---- MODULE Spec2Model ----
(***************************************************************************)
(* Model of anaerobic_codigestion_model.py: the substrate and Gompertz     *)
(* parameter tables, calc_mixture_properties, gompertz_curve, simulate and *)
(* the script's main sequence with its plotting calls.                     *)
(*                                                                         *)
(* Numbers.  The program computes in IEEE doubles.  Here a real number x   *)
(* is the integer x * ONE (six decimals), and every arithmetic operation   *)
(* rounds its exact result toward zero, as a double operation rounds its   *)
(* exact result to the nearest double.  All intermediate values stay below *)
(* 2^31.  np.exp is computed (np_exp below) from a Taylor polynomial and   *)
(* repeated squaring; it is accurate to about 3 parts in 10^5.             *)
(***************************************************************************)
EXTENDS Integers, Sequences, FiniteSets, TLC

VARIABLES
    pc,      \* "start" | "returned" for an API call; the position in __main__
    call,    \* the entry point under execution and its arguments
    ret,     \* what the API call returned or raised
    env,     \* the outside world of the script: output directory, plot backend
    stdout,  \* the messages printed by __main__, in order
    files,   \* the image files written
    exc      \* the exception that escaped __main__, "none" if none did

vars == <<pc, call, ret, env, stdout, files, exc>>

-----------------------------------------------------------------------------
(* Bounds of the model *)

MaxParts == 5      \* mixing parts range over -1..MaxParts
MaxTmax == 3       \* explicit t_max in days: 1..MaxTmax
MaxPoints == 4     \* explicit n_points: 1..MaxPoints
MaxTick == 10      \* direct gompertz_curve calls at t = i * Tick, i in 0..MaxTick

-----------------------------------------------------------------------------
(* Fixed-point arithmetic standing for the float operations *)

ONE == 1000 * 1000

Tick == (5 * ONE) \div 2

Abs(x) == IF x < 0 THEN -x ELSE x

SameSign(a, b) == (a >= 0) = (b >= 0)

\* a * b = q * d + r with 0 <= r < d, for a, b >= 0, d > 0, a + 2d < 2^31
RECURSIVE MulDivQR(_, _, _)
MulDivQR(a, b, d) ==
    IF b = 0 THEN <<0, 0>>
    ELSE LET h == MulDivQR(a, b \div 2, d)
             t == 2 * h[2] + (b % 2) * a
         IN  <<2 * h[1] + t \div d, t % d>>

\* x * y of two reals, rounded toward zero
FMul(x, y) ==
    LET a == Abs(x)
        b == Abs(y)
        aH == a \div 1000
        aL == a % 1000
        bH == b \div 1000
        bL == b % 1000
        m == aH * bH + (aH * bL + aL * bH + (aL * bL) \div 1000) \div 1000
    IN  IF SameSign(x, y) THEN m ELSE -m

\* x / y of two reals, y # 0, rounded toward zero
FDiv(x, y) ==
    LET m == MulDivQR(Abs(x), ONE, Abs(y))[1]
    IN  IF SameSign(x, y) THEN m ELSE -m

\* Python's a / b of two ints, b # 0: a float
IntTrueDiv(a, b) == FDiv(a, b)

\* np.e
E == 2718281

\* Where exp overflows the six-decimal range; stands for a huge double
Inf == 2000 * ONE

\* sum of u^k / k!, k = 0..10, for 0 <= u <= 1
RECURSIVE TaylorExp(_, _, _)
TaylorExp(u, k, acc) ==
    IF k = 0 THEN acc
    ELSE TaylorExp(u, k - 1, ONE + FMul(u, acc) \div k)

RECURSIVE PowSq(_, _)
PowSq(r, n) == IF n = 0 THEN r ELSE PowSq(FMul(r, r), n - 1)

\* np.exp(x): exp(x) = exp(x / 16)^16
np_exp(x) ==
    IF x > 6 * ONE THEN Inf
    ELSE IF x >= 0 THEN PowSq(TaylorExp(x \div 16, 10, ONE), 4)
    ELSE IF x < -(16 * ONE) THEN 0
    ELSE PowSq(FDiv(ONE, TaylorExp((-x) \div 16, 10, ONE)), 4)

-----------------------------------------------------------------------------
(* The hardcoded tables *)

SUBSTRATE_PROPERTIES ==
    [FW |-> [pH |-> 4900000, TS_percent |-> 27400000, VS_percent |-> 91200000,
             C_N |-> 20790000, sCOD_g_L |-> 74100000, tCOD_g_L |-> 205800000],
     CM |-> [pH |-> 7400000, TS_percent |-> 19200000, VS_percent |-> 83070000,
             C_N |-> 8220000, sCOD_g_L |-> 13500000, tCOD_g_L |-> 51200000]]

\* list(GOMPERTZ_PARAMS.keys()), in insertion order
GOMPERTZ_KEYS ==
    <<"Ratio-8_0", "Ratio-7_1", "Ratio-6_2", "Ratio-4_4", "Ratio-2_6", "Ratio-1_7">>

GOMPERTZ_PARAMS ==
    [keys |-> GOMPERTZ_KEYS,
     get |->
       ("Ratio-8_0" :> [G0 |-> 139750000, k_max |-> 9960000, lambda |-> 770000,
                        FW_percent |-> 100000000]) @@
       ("Ratio-7_1" :> [G0 |-> 226850000, k_max |-> 19330000, lambda |-> 200000,
                        FW_percent |-> 87500000]) @@
       ("Ratio-6_2" :> [G0 |-> 326530000, k_max |-> 26960000, lambda |-> 430000,
                        FW_percent |-> 75000000]) @@
       ("Ratio-4_4" :> [G0 |-> 279380000, k_max |-> 20980000, lambda |-> 0,
                        FW_percent |-> 50000000]) @@
       ("Ratio-2_6" :> [G0 |-> 240810000, k_max |-> 16740000, lambda |-> 0,
                        FW_percent |-> 25000000]) @@
       ("Ratio-1_7" :> [G0 |-> 213480000, k_max |-> 12820000, lambda |-> 0,
                        FW_percent |-> 12500000])]

SIMULATION_PARAMS == [t_max |-> 25 * ONE, n_points |-> 200, TS_target |-> 8 * ONE]

SHOW_PLOTS == TRUE

-----------------------------------------------------------------------------
(* calc_mixture_properties *)

\* Optional arguments: <<>> is None (omitted), <<v>> is the value v
None == <<>>

Some(v) == <<v>>

\* Mutant of DryMass: the weight is the part count, the total solids forgotten
DryMassByParts(parts, TS) == parts * ONE

\* parts * TS_percent: the dry mass of one substrate
DryMass(parts, TS) == parts * TS

\* Mutant of Blend: each fraction weights the other substrate's value
BlendSwapped(FW_frac, CM_frac, P_FW, P_CM) == FMul(FW_frac, P_CM) + FMul(CM_frac, P_FW)

\* FW_frac * P_FW + CM_frac * P_CM for one property
Blend(FW_frac, CM_frac, P_FW, P_CM) == FMul(FW_frac, P_FW) + FMul(CM_frac, P_CM)

Raised(kind) == [err |-> kind, mixture |-> <<>>]

calc_mixture_properties(ratio_FW_CM, TS_target, substrates_arg) ==
    LET substrates == IF substrates_arg = None THEN SUBSTRATE_PROPERTIES
                      ELSE substrates_arg[1]
        FW_parts == ratio_FW_CM[1]
        CM_parts == ratio_FW_CM[2]
        total_parts == FW_parts + CM_parts
        FW_TS == substrates.FW.TS_percent
        CM_TS == substrates.CM.TS_percent
        FW_mass == DryMass(FW_parts, FW_TS)
        CM_mass == DryMass(CM_parts, CM_TS)
        total_mass == FW_mass + CM_mass
        FW_frac == FDiv(FW_mass, total_mass)
        CM_frac == FDiv(CM_mass, total_mass)
        B(key) == Blend(FW_frac, CM_frac, substrates.FW[key], substrates.CM[key])
    IN  IF total_mass = 0 THEN Raised("ZeroDivisionError")
        ELSE IF total_parts = 0 THEN Raised("ZeroDivisionError")
        ELSE [err |-> "none",
              mixture |-> <<
                [ratio |-> <<FW_parts, CM_parts>>,
                 FW_percent |-> FMul(IntTrueDiv(FW_parts, total_parts), 100 * ONE),
                 CM_percent |-> FMul(IntTrueDiv(CM_parts, total_parts), 100 * ONE),
                 pH |-> B("pH"),
                 TS_percent |-> TS_target,
                 VS_percent |-> B("VS_percent"),
                 C_N |-> B("C_N"),
                 sCOD_g_L |-> B("sCOD_g_L"),
                 tCOD_g_L |-> B("tCOD_g_L")] >>]

-----------------------------------------------------------------------------
(* gompertz_curve *)

\* Mutant of Exponent: (t - lambda_) for (lambda_ - t)
ExponentTimeReversed(t, G0, k_max, lambda_) ==
    FMul(FDiv(FMul(k_max, E), G0), t - lambda_) + ONE

\* Mutant of Exponent: the "+ 1" forgotten
ExponentNoOffset(t, G0, k_max, lambda_) ==
    FMul(FDiv(FMul(k_max, E), G0), lambda_ - t)

\* (k_max * e / G0) * (lambda_ - t) + 1, for G0 # 0
Exponent(t, G0, k_max, lambda_) ==
    FMul(FDiv(FMul(k_max, E), G0), lambda_ - t) + ONE

\* Mutant of Yield: the minus sign of the outer exponent dropped (the factor is
\* capped at 4 to stay in the range of the arithmetic)
YieldSignDropped(G0, exponent) ==
    LET f == np_exp(np_exp(exponent))
    IN  FMul(G0, IF f > 4 * ONE THEN 4 * ONE ELSE f)

\* G0 * np.exp(-np.exp(exponent))
Yield(G0, exponent) == FMul(G0, np_exp(-np_exp(exponent)))

\* val is <<G>> when a value is returned and <<>> when the call raised
gompertz_curve(t, G0, k_max, lambda_) ==
    IF G0 = 0 THEN [err |-> "ZeroDivisionError", val |-> <<>>]
    ELSE [err |-> "none", val |-> <<Yield(G0, Exponent(t, G0, k_max, lambda_))>>]

-----------------------------------------------------------------------------
(* simulate *)

\* Mutant of Linspace: endpoint=False, num steps and stop never reached
LinspaceNoEndpoint(start, stop, num) ==
    [i \in 1..num |-> (i - 1) * ((stop - start) \div num) + start]

\* np.linspace(start, stop, num) for num >= 1: arange(num) * step + start,
\* with the last point set to stop
Linspace(start, stop, num) ==
    LET div == num - 1
        step == IF div > 0 THEN (stop - start) \div div ELSE 0
    IN  [i \in 1..num |->
            IF num > 1 /\ i = num THEN stop ELSE (i - 1) * step + start]

\* Mutant of TableInUse: the params override ignored
TableIgnoringOverride(params) == GOMPERTZ_PARAMS

\* The table simulate looks the name up in
TableInUse(params) == IF params = None THEN GOMPERTZ_PARAMS ELSE params[1]

InTable(ratio_name, table) == \E i \in 1..Len(table.keys) : table.keys[i] = ratio_name

simulate(ratio_name, t_max_arg, n_points_arg, params_arg) ==
    LET params == TableInUse(params_arg)
        t_max == IF t_max_arg = None THEN SIMULATION_PARAMS.t_max ELSE t_max_arg[1]
        n_points == IF n_points_arg = None THEN SIMULATION_PARAMS.n_points
                    ELSE n_points_arg[1]
    IN  IF ~InTable(ratio_name, params)
        THEN [err |-> "ValueError",
              msg |-> [text |-> "Proporcao desconhecida", ratio |-> ratio_name,
                       available |-> params.keys],
              steps |-> <<"lookup">>, t |-> <<>>, G |-> <<>>]
        ELSE
          LET param_set == params.get[ratio_name]
              G0 == param_set.G0
              k_max == param_set.k_max
              lambda_ == param_set.lambda
              t == Linspace(0, t_max, n_points)
              \* k_max * e / G0 divides two scalars: it raises for the whole array
          IN  IF gompertz_curve(t[1], G0, k_max, lambda_).err # "none"
              THEN [err |-> "ZeroDivisionError", msg |-> <<>>,
                    steps |-> <<"lookup", "linspace", "gompertz_curve">>,
                    t |-> <<>>, G |-> <<>>]
              ELSE [err |-> "none", msg |-> <<>>,
                    steps |-> <<"lookup", "linspace", "gompertz_curve">>,
                    t |-> t,
                    G |-> [i \in 1..Len(t) |->
                              gompertz_curve(t[i], G0, k_max, lambda_).val[1]]]

-----------------------------------------------------------------------------
(* Plotting *)

\* What pyplot does with a figure: fault is the failure of the backend
\* (display unavailable), "none" when it works; savefig needs the directory
PlotResult(filename, show, world, fault) ==
    IF fault # "none" THEN [err |-> fault, saved |-> {}, shown |-> FALSE]
    ELSE IF filename # None /\ ~world.outdir_exists
    THEN [err |-> "FileNotFoundError", saved |-> {}, shown |-> FALSE]
    ELSE [err |-> "none",
          saved |-> IF filename # None THEN {filename[1]} ELSE {},
          shown |-> show /\ SHOW_PLOTS]

plot_biogas(t, G, ratio_name, filename, show, world, fault) ==
    PlotResult(filename, show, world, fault)

\* The loop of plot_all_ratios: simulate(ratio_name) for every key of the table
AllRatiosSimulated ==
    \A i \in 1..Len(GOMPERTZ_PARAMS.keys) :
        simulate(GOMPERTZ_PARAMS.keys[i], None, None, None).err = "none"

plot_all_ratios(filename, show, world, fault) ==
    IF ~AllRatiosSimulated
    THEN [err |-> "ValueError", saved |-> {}, shown |-> FALSE]
    ELSE PlotResult(filename, show, world, fault)

-----------------------------------------------------------------------------
(* Inputs of the calls *)

TSTargets == {SIMULATION_PARAMS.TS_target, 10 * ONE, SUBSTRATE_PROPERTIES.FW.TS_percent}

MixtureCalls ==
    {[fn |-> "calc_mixture_properties", ratio_FW_CM |-> <<a, b>>, TS_target |-> ts] :
        a \in (-1)..MaxParts, b \in (-1)..MaxParts, ts \in TSTargets}

TableTriples ==
    {<<GOMPERTZ_PARAMS.get[GOMPERTZ_KEYS[i]].G0,
       GOMPERTZ_PARAMS.get[GOMPERTZ_KEYS[i]].k_max,
       GOMPERTZ_PARAMS.get[GOMPERTZ_KEYS[i]].lambda>> : i \in 1..Len(GOMPERTZ_KEYS)}

GridTriples ==
    {<<g * ONE, k * ONE, l * ONE>> :
        g \in {-100, 0, 40, 150}, k \in {-5, 0, 10, 30}, l \in {-1, 0, 2}}

\* Times of the direct calls: a grid over the horizon, and the end of the lag phase
GompertzCalls ==
    {[fn |-> "gompertz_curve", t |-> i * Tick, G0 |-> p[1], k_max |-> p[2],
      lambda_ |-> p[3]] : i \in 0..MaxTick, p \in TableTriples \cup GridTriples}
    \cup
    {[fn |-> "gompertz_curve", t |-> p[3], G0 |-> p[1], k_max |-> p[2],
      lambda_ |-> p[3]] : p \in {q \in TableTriples \cup GridTriples : q[3] >= 0}}

\* A params override: its own names, one name of the default table with other
\* values, and triples outside the valid ranges
CUSTOM_PARAMS ==
    [keys |-> <<"Custom-A", "Custom-Zero", "Custom-NegG0", "Custom-NegK", "Ratio-6_2">>,
     get |->
       ("Custom-A" :> [G0 |-> 100 * ONE, k_max |-> 10 * ONE, lambda |-> ONE]) @@
       ("Custom-Zero" :> [G0 |-> 0, k_max |-> 10 * ONE, lambda |-> ONE]) @@
       ("Custom-NegG0" :> [G0 |-> -(50 * ONE), k_max |-> 5 * ONE, lambda |-> 0]) @@
       ("Custom-NegK" :> [G0 |-> 100 * ONE, k_max |-> -(5 * ONE), lambda |-> 0]) @@
       ("Ratio-6_2" :> [G0 |-> 200 * ONE, k_max |-> 20 * ONE, lambda |-> 2 * ONE])]

RatioNames ==
    {GOMPERTZ_KEYS[i] : i \in 1..Len(GOMPERTZ_KEYS)}
    \cup {CUSTOM_PARAMS.keys[i] : i \in 1..Len(CUSTOM_PARAMS.keys)}
    \cup {"Ratio-9_9"}

SimulateCalls ==
    {[fn |-> "simulate", ratio_name |-> n, t_max |-> tm, n_points |-> np, params |-> ps] :
        n \in RatioNames,
        tm \in {None} \cup {Some(d * ONE) : d \in 1..MaxTmax},
        np \in {None} \cup {Some(k) : k \in 1..MaxPoints},
        ps \in {None, Some(CUSTOM_PARAMS)}}

Worlds == [outdir_exists : BOOLEAN]

Faults == {"none", "RuntimeError"}

NoWorld == [outdir_exists |-> TRUE]

-----------------------------------------------------------------------------
(* The state machine: one API call, or one run of the script *)

Init ==
    /\ pc = "start"
    /\ \/ call \in MixtureCalls /\ env = NoWorld
       \/ call \in GompertzCalls /\ env = NoWorld
       \/ call \in SimulateCalls /\ env = NoWorld
       \/ call = [fn |-> "__main__"] /\ env \in Worlds
    /\ ret = <<>>
    /\ stdout = <<>>
    /\ files = {}
    /\ exc = "none"

CallMixture ==
    /\ pc = "start"
    /\ call.fn = "calc_mixture_properties"
    /\ ret' = calc_mixture_properties(call.ratio_FW_CM, call.TS_target, None)
    /\ pc' = "returned"
    /\ UNCHANGED <<call, env, stdout, files, exc>>

CallGompertz ==
    /\ pc = "start"
    /\ call.fn = "gompertz_curve"
    /\ ret' = gompertz_curve(call.t, call.G0, call.k_max, call.lambda_)
    /\ pc' = "returned"
    /\ UNCHANGED <<call, env, stdout, files, exc>>

CallSimulate ==
    /\ pc = "start"
    /\ call.fn = "simulate"
    /\ ret' = simulate(call.ratio_name, call.t_max, call.n_points, call.params)
    /\ pc' = "returned"
    /\ UNCHANGED <<call, env, stdout, files, exc>>

-----------------------------------------------------------------------------
(* __main__: the script's sequence, one action per example *)

Line(tag, val, text) == [tag |-> tag, val |-> val, text |-> text]

Emit(out, line) == Append(out, line)

InMain(at) == call.fn = "__main__" /\ pc = at

\* An exception outside any try block ends the script
Escapes(err) ==
    /\ exc' = err
    /\ pc' = "crashed"
    /\ UNCHANGED <<call, ret, env, stdout, files>>

\* Mutant of HandlerOfTry: the handler catches file errors only
HandlerOnlyOSError(err) == IF err = "FileNotFoundError" THEN "except" ELSE "crashed"

\* The handler an exception raised inside the try block of Exemplo 5 goes to
HandlerOfTry(err) == "except"

\* Inside the try block: the next statement, or the handler with the exception
TryStep(err, next, called) ==
    /\ pc' = IF err = "none" THEN next ELSE HandlerOfTry(err)
    /\ ret' = [pending |-> err, calls |-> Append(ret.calls, called)]

\* The script's own calls, whose arguments are literals
SimulateOptimum == simulate("Ratio-6_2", None, None, None)

SimulateBalanced == simulate("Ratio-4_4", None, None, None)

Mixture_6_2 == calc_mixture_properties(<<6, 2>>, 8 * ONE, None)

MainBanner ==
    /\ InMain("start")
    /\ stdout' = Emit(stdout, Line("header", 0, "MODELO DE CO-DIGESTAO ANAEROBIA"))
    /\ ret' = [pending |-> "none", calls |-> <<>>]
    /\ pc' = "ex1"
    /\ UNCHANGED <<call, env, files, exc>>

\* print_ratio_info, simulate and the two result lines of Exemplos 1 and 2
SimulateExample(at, ratio_name, r, next) ==
    /\ InMain(at)
    /\ IF r.err # "none" THEN Escapes(r.err)
       ELSE /\ stdout' = Emit(Emit(stdout,
                            Line("ratio_info", GOMPERTZ_PARAMS.get[ratio_name].G0, ratio_name)),
                            Line("final_yield", r.G[Len(r.G)], ratio_name))
            /\ ret' = [ret EXCEPT !.calls = Append(@, "simulate")]
            /\ pc' = next
            /\ UNCHANGED <<call, env, files, exc>>

MainEx1 == SimulateExample("ex1", "Ratio-6_2", SimulateOptimum, "ex2")

MainEx2 == SimulateExample("ex2", "Ratio-4_4", SimulateBalanced, "ex3")

MainEx3 ==
    /\ InMain("ex3")
    /\ LET m == Mixture_6_2
       IN  IF m.err # "none" THEN Escapes(m.err)
           ELSE /\ stdout' = Emit(stdout, Line("mixture_pH", m.mixture[1].pH, "6:2"))
                /\ ret' = [ret EXCEPT !.calls = Append(@, "calc_mixture_properties")]
                /\ pc' = "ex4"
                /\ UNCHANGED <<call, env, files, exc>>

MainEx4 ==
    /\ InMain("ex4")
    /\ stdout' = Emit(stdout, Line("available", Len(GOMPERTZ_PARAMS.keys), "list_available_ratios"))
    /\ ret' = [ret EXCEPT !.calls = Append(@, "list_available_ratios")]
    /\ pc' = "ex5"
    /\ UNCHANGED <<call, env, files, exc>>

MainEx5Simulate ==
    /\ InMain("ex5")
    /\ stdout' = Emit(stdout, Line("ex5", 0, "Criando Graficos"))
    /\ TryStep(SimulateOptimum.err, "plot_biogas", "simulate")
    /\ UNCHANGED <<call, env, files, exc>>

MainPlotBiogas ==
    /\ InMain("plot_biogas")
    /\ \E fault \in Faults :
          LET r == SimulateOptimum
              p == plot_biogas(r.t, r.G, "Ratio-6_2 (Otima)",
                               Some("data/output/biogas_optimal.png"), FALSE, env, fault)
          IN  /\ TryStep(p.err, "plot_all_ratios", "plot_biogas")
              /\ files' = files \cup p.saved
              /\ stdout' = IF p.saved = {} THEN stdout
                           ELSE Emit(stdout, Line("saved", 0, "data/output/biogas_optimal.png"))
    /\ UNCHANGED <<call, env, exc>>

MainPlotAllRatios ==
    /\ InMain("plot_all_ratios")
    /\ \E fault \in Faults :
          LET p == plot_all_ratios(Some("data/output/all_ratios.png"), FALSE, env, fault)
          IN  /\ TryStep(p.err, "saved", "plot_all_ratios")
              /\ files' = files \cup p.saved
              /\ stdout' = IF p.saved = {} THEN stdout
                           ELSE Emit(stdout, Line("saved", 0, "data/output/all_ratios.png"))
    /\ UNCHANGED <<call, env, exc>>

MainPlotsSaved ==
    /\ InMain("saved")
    /\ stdout' = Emit(stdout, Line("plots_saved", 0, "Graficos salvos em data/output/"))
    /\ pc' = "final"
    /\ UNCHANGED <<call, ret, env, files, exc>>

MainExcept ==
    /\ InMain("except")
    /\ stdout' = Emit(stdout, Line("plot_error", 0, ret.pending))
    /\ ret' = [ret EXCEPT !.pending = "none"]
    /\ pc' = "final"
    /\ UNCHANGED <<call, env, files, exc>>

MainFinalBanner ==
    /\ InMain("final")
    /\ stdout' = Emit(stdout, Line("complete", 0, "Simulacao Completa!"))
    /\ pc' = "done"
    /\ UNCHANGED <<call, ret, env, files, exc>>

\* One statement of the script
MainNext ==
    \/ MainBanner
    \/ MainEx1
    \/ MainEx2
    \/ MainEx3
    \/ MainEx4
    \/ MainEx5Simulate
    \/ MainPlotBiogas
    \/ MainPlotAllRatios
    \/ MainPlotsSaved
    \/ MainExcept
    \/ MainFinalBanner

Next ==
    \/ CallMixture
    \/ CallGompertz
    \/ CallSimulate
    \/ MainNext

Spec == Init /\ [][Next]_vars

\* The interpreter runs the script's next statement: no step waits on anything
FairSpec == Spec /\ WF_vars(MainNext)

-----------------------------------------------------------------------------
(* Properties *)

Returned(fn) == pc = "returned" /\ call.fn = fn

\* The keys of the table a simulate call names: the override when given
KeysOfCall == IF call.params = None THEN GOMPERTZ_KEYS ELSE call.params[1].keys

KnownName == \E i \in 1..Len(KeysOfCall) : KeysOfCall[i] = call.ratio_name

\* The parameter set a simulate call with a known name uses
SetOfCall ==
    IF call.params = None THEN GOMPERTZ_PARAMS.get[call.ratio_name]
    ELSE call.params[1].get[call.ratio_name]

ValidTriple(G0, k_max, lambda_) == G0 > 0 /\ k_max >= 0 /\ lambda_ >= 0

\* C1: simulate with a name that is not a key of the table in use raises the
\* unknown-ratio ValueError, whose message lists the table's keys, before the
\* time grid is built or any curve value computed; with a key of the table it
\* never raises that error.
C1_UnknownRatioRejected ==
    Returned("simulate") =>
        IF KnownName THEN ret.err # "ValueError"
        ELSE /\ ret.err = "ValueError"
             /\ ret.msg.ratio = call.ratio_name
             /\ ret.msg.available = KeysOfCall
             /\ ret.steps = <<"lookup">>
             /\ ret.t = <<>>
             /\ ret.G = <<>>

C1_Witness ==
    /\ Returned("simulate")
    /\ call.params # None
    /\ call.ratio_name = "Ratio-8_0"
    /\ ret.err = "ValueError"
    /\ ret.msg.available = CUSTOM_PARAMS.keys

\* C2: calc_mixture_properties rejects a ratio with a negative part or with
\* both parts zero: such a call fails with an error (of whatever class stands
\* for InvalidRatio) and produces no mixture record.
C2_InvalidRatioRejected ==
    Returned("calc_mixture_properties") =>
        LET a == call.ratio_FW_CM[1]
            b == call.ratio_FW_CM[2]
        IN  (a < 0 \/ b < 0 \/ (a = 0 /\ b = 0)) =>
                (ret.err # "none" /\ ret.mixture = <<>>)

\* C3: the Gompertz evaluator validates its inputs: with G0 <= 0, k_max < 0 or
\* lambda < 0 a call of gompertz_curve, directly or through simulate, fails
\* with an error (of whatever class) and returns no yield value.
C3_InvalidTripleRejected ==
    /\ Returned("gompertz_curve") =>
          (~ValidTriple(call.G0, call.k_max, call.lambda_) =>
              (ret.err # "none" /\ ret.val = <<>>))
    /\ (Returned("simulate") /\ KnownName) =>
          (~ValidTriple(SetOfCall.G0, SetOfCall.k_max, SetOfCall.lambda) =>
              (ret.err # "none" /\ ret.G = <<>>))

PureFW == call.ratio_FW_CM = <<1, 0>>

PureCM == call.ratio_FW_CM = <<0, 1>>

BlendedOf(m) == <<m.pH, m.VS_percent, m.C_N, m.sCOD_g_L, m.tCOD_g_L>>

\* C4 as stated: with ratio (1,0) every returned property, total solids
\* included, equals the food-waste entry, and with (0,1) the cow-manure entry.
C4_PureRatioAllProperties ==
    (Returned("calc_mixture_properties") /\ (PureFW \/ PureCM)) =>
        LET own == IF PureFW THEN SUBSTRATE_PROPERTIES.FW ELSE SUBSTRATE_PROPERTIES.CM
        IN  /\ ret.err = "none"
            /\ BlendedOf(ret.mixture[1]) = BlendedOf(own)
            /\ ret.mixture[1].TS_percent = own.TS_percent

\* C4 amended: with ratio (1,0) pH, VS%, C/N, sCOD and tCOD equal the
\* food-waste entry exactly, and with (0,1) the cow-manure entry; TS_percent
\* is the TS_target argument, whatever the substrate's own total solids.
C4_PureRatioReduces ==
    (Returned("calc_mixture_properties") /\ (PureFW \/ PureCM)) =>
        LET own == IF PureFW THEN SUBSTRATE_PROPERTIES.FW ELSE SUBSTRATE_PROPERTIES.CM
        IN  /\ ret.err = "none"
            /\ BlendedOf(ret.mixture[1]) = BlendedOf(own)
            /\ ret.mixture[1].TS_percent = call.TS_target
            /\ ret.mixture[1].FW_percent = (IF PureFW THEN 100 * ONE ELSE 0)

C4_Witness ==
    /\ Returned("calc_mixture_properties")
    /\ PureFW
    /\ call.TS_target = 8 * ONE
    /\ ret.mixture[1].pH = SUBSTRATE_PROPERTIES.FW.pH
    /\ ret.mixture[1].TS_percent # SUBSTRATE_PROPERTIES.FW.TS_percent

NonDecreasing(G) == \A i \in 1..(Len(G) - 1) : G[i] <= G[i + 1]

\* C5: for a valid triple the curve is non-decreasing in t: the value of a
\* direct call at t is at most the value at every later time of the grid and
\* at most G0; the G array simulate returns is non-decreasing along its index
\* and never exceeds G0.
C5_Monotone ==
    /\ (Returned("gompertz_curve") /\ ValidTriple(call.G0, call.k_max, call.lambda_)) =>
          /\ ret.err = "none"
          /\ ret.val[1] <= call.G0
          /\ \A j \in 0..MaxTick :
                j * Tick >= call.t =>
                    ret.val[1] <=
                        gompertz_curve(j * Tick, call.G0, call.k_max, call.lambda_).val[1]
    /\ (/\ Returned("simulate")
        /\ KnownName
        /\ ValidTriple(SetOfCall.G0, SetOfCall.k_max, SetOfCall.lambda)) =>
          /\ ret.err = "none"
          /\ NonDecreasing(ret.G)
          /\ \A i \in 1..Len(ret.G) : ret.G[i] <= SetOfCall.G0

C5_Witness ==
    /\ Returned("simulate")
    /\ call.ratio_name = "Ratio-8_0"
    /\ call.params = None
    /\ call.n_points = None
    /\ call.t_max = None
    /\ ret.G[1] < ret.G[100]
    /\ ret.G[100] < ret.G[200]

DefaultOptimum ==
    /\ Returned("simulate")
    /\ call.ratio_name = "Ratio-6_2"
    /\ call.params = None
    /\ call.t_max = None
    /\ call.n_points = None

\* C6 as stated: the final value of simulate('Ratio-6_2') over [0, 25] with
\* 200 points is below G0 = 326.53 and within floating tolerance of it (here
\* 0.1, far coarser than any rounding of the arithmetic).
C6_FinalYieldAtAsymptote ==
    DefaultOptimum =>
        /\ ret.G[Len(ret.G)] < SetOfCall.G0
        /\ SetOfCall.G0 - ret.G[Len(ret.G)] <= ONE \div 10

\* C6 amended: the final value of simulate('Ratio-6_2') over [0, 25] with 200
\* points is strictly below G0 = 326.53 and is 323.0 to one decimal, as the
\* docstring of simulate prints it: more than 3 mL/g VS short of G0.
C6_FinalYieldBelowAsymptote ==
    DefaultOptimum =>
        /\ Len(ret.G) = 200
        /\ ret.t[200] = 25 * ONE
        /\ SetOfCall.G0 = 326530000
        /\ ret.G[200] < SetOfCall.G0
        /\ ret.G[200] >= 322950000
        /\ ret.G[200] < 323050000
        /\ SetOfCall.G0 - ret.G[200] > 3 * ONE

C6_Witness == DefaultOptimum /\ ret.err = "none" /\ ret.G[200] > 322 * ONE

\* C7: for a valid triple the yield at the end of the lag phase is strictly
\* below the ultimate yield: gompertz_curve(lambda, G0, k_max, lambda) < G0;
\* for the table's entries with lambda = 0 that is the first point of simulate.
C7_LagYieldBelowG0 ==
    /\ (/\ Returned("gompertz_curve")
        /\ ValidTriple(call.G0, call.k_max, call.lambda_)
        /\ call.t = call.lambda_) =>
          (ret.err = "none" /\ ret.val[1] < call.G0)
    /\ (/\ Returned("simulate")
        /\ call.params = None
        /\ KnownName
        /\ SetOfCall.lambda = 0) =>
          (ret.err = "none" /\ ret.G[1] < SetOfCall.G0)

C7_Witness ==
    /\ Returned("gompertz_curve")
    /\ call.G0 = 326530000
    /\ call.lambda_ = 430000
    /\ call.t = call.lambda_
    /\ ret.val[1] > 0
    /\ ret.val[1] < call.G0

Printed(tag) == \E i \in 1..Len(stdout) : stdout[i].tag = tag

Called(f) == \E i \in 1..Len(ret.calls) : ret.calls[i] = f

Finished == call.fn = "__main__" /\ pc = "done"

\* C8 as stated: whatever fails while plotting, every remaining step of the
\* program still runs and the run ends with the completion banner: a finished
\* run has called both plotting functions and ends with the banner.
C8_EveryStepStillRuns ==
    Finished =>
        /\ exc = "none"
        /\ stdout[Len(stdout)].tag = "complete"
        /\ Called("plot_biogas")
        /\ Called("plot_all_ratios")

\* What holds in every state of a run of the script
PlotFailureHandled ==
    call.fn = "__main__" =>
        /\ exc = "none"
        /\ pc # "crashed"
        /\ pc = "except" => (ret.pending # "none" /\ ~Printed("plots_saved"))
        /\ Finished =>
              /\ stdout[Len(stdout)].tag = "complete"
              /\ Printed("plot_error") # Printed("plots_saved")
              /\ (Printed("plot_error") /\ "data/output/biogas_optimal.png" \notin files)
                    => ~Called("plot_all_ratios")
              /\ Called("plot_all_ratios") <=> "data/output/biogas_optimal.png" \in files

\* C8 amended: an exception raised while plotting in Exemplo 5 is caught by the
\* one try/except around both plotting calls and reported as a message; no
\* exception escapes, the run goes on to the completion banner, and the rest of
\* the try block is skipped: after a failed plot_biogas, plot_all_ratios is not
\* called, and after either failure the "Graficos salvos" line is not printed.
C8_PlotFailureCaught ==
    /\ []PlotFailureHandled
    /\ (call.fn = "__main__") ~> Finished

C8_Witness ==
    /\ Finished
    /\ Printed("plot_error")
    /\ Called("plot_biogas")
    /\ ~Called("plot_all_ratios")
    /\ files = {}
    /\ stdout[Len(stdout)].tag = "complete"

\* What rounding may add to a blended property or a percentage: 0.001
RoundTol == ONE \div 1000

Near(x, y) == Abs(x - y) <= RoundTol

Between(x, p, q) == (p <= x /\ x <= q) \/ (q <= x /\ x <= p)

\* (a*TS_FW*P_FW + b*TS_CM*P_CM) / (a*TS_FW + b*TS_CM), from the table's
\* decimals as integers (TS in tenths, P in hundredths)
MassWeighted(a, b, key) ==
    LET wFW == a * (SUBSTRATE_PROPERTIES.FW.TS_percent \div 100000)
        wCM == b * (SUBSTRATE_PROPERTIES.CM.TS_percent \div 100000)
        n == wFW * (SUBSTRATE_PROPERTIES.FW[key] \div 10000)
             + wCM * (SUBSTRATE_PROPERTIES.CM[key] \div 10000)
    IN  MulDivQR(n, 10000, wFW + wCM)[1]

BlendOK(m, a, b, key) ==
    /\ Near(m[key], MassWeighted(a, b, key))
    /\ Between(m[key], SUBSTRATE_PROPERTIES.FW[key], SUBSTRATE_PROPERTIES.CM[key])

PercentsOK(m, a, b) ==
    /\ Near(m.FW_percent, MulDivQR(100 * a, ONE, a + b)[1])
    /\ Near(m.CM_percent, MulDivQR(100 * b, ONE, a + b)[1])
    /\ Near(m.FW_percent + m.CM_percent, 100 * ONE)

ValidRatioCall ==
    /\ Returned("calc_mixture_properties")
    /\ call.ratio_FW_CM[1] >= 0
    /\ call.ratio_FW_CM[2] >= 0
    /\ call.ratio_FW_CM[1] + call.ratio_FW_CM[2] > 0

\* C9 as stated: for a valid ratio (a, b) every blended property of the
\* record, total solids among them, is the dry-mass-weighted average (up to
\* rounding) and lies between the substrates' values; the percentages are by
\* part count and sum to 100.
C9_EveryPropertyBlended ==
    ValidRatioCall =>
        LET a == call.ratio_FW_CM[1]
            b == call.ratio_FW_CM[2]
            m == ret.mixture[1]
        IN  /\ ret.err = "none"
            /\ \A key \in {"pH", "TS_percent", "VS_percent", "C_N", "sCOD_g_L", "tCOD_g_L"} :
                  BlendOK(m, a, b, key)
            /\ PercentsOK(m, a, b)

\* C9 amended: for a valid ratio (a, b) each of pH, VS%, C/N, sCOD and tCOD is
\* the dry-mass-weighted average (up to rounding) and lies between the
\* substrates' values; TS_percent is not blended, it is the TS_target argument;
\* FW_percent and CM_percent are 100a/(a+b) and 100b/(a+b) and sum to 100 (up
\* to rounding).
C9_MassWeightedBlend ==
    ValidRatioCall =>
        LET a == call.ratio_FW_CM[1]
            b == call.ratio_FW_CM[2]
            m == ret.mixture[1]
        IN  /\ ret.err = "none"
            /\ \A key \in {"pH", "VS_percent", "C_N", "sCOD_g_L", "tCOD_g_L"} :
                  BlendOK(m, a, b, key)
            /\ m.TS_percent = call.TS_target
            /\ PercentsOK(m, a, b)

C9_Witness ==
    /\ ValidRatioCall
    /\ call.ratio_FW_CM = <<1, 2>>
    /\ ret.mixture[1].pH > SUBSTRATE_PROPERTIES.FW.pH
    /\ ret.mixture[1].pH < SUBSTRATE_PROPERTIES.CM.pH
    /\ ret.mixture[1].FW_percent < ret.mixture[1].CM_percent

GivenOr(arg, default) == IF arg = None THEN default ELSE arg[1]

\* C10: for a known ratio name, t_max > 0 and n_points >= 2, simulate returns
\* t and G of length n_points; t starts at 0, ends at t_max, is strictly
\* increasing and evenly spaced (the last step, which ends exactly at t_max,
\* up to rounding); G[i] is the Gompertz value of the looked-up set at t[i];
\* omitted t_max and n_points are 25 and 200.
C10_GridAndCurve ==
    (Returned("simulate") /\ KnownName /\ SetOfCall.G0 # 0) =>
        LET n == GivenOr(call.n_points, 200)
            t_max == GivenOr(call.t_max, 25 * ONE)
            t == ret.t
            G == ret.G
        IN  /\ ret.err = "none"
            /\ Len(t) = n
            /\ Len(G) = n
            /\ t[1] = 0
            /\ n >= 2 =>
                  /\ t[n] = t_max
                  /\ \A i \in 1..(n - 1) : t[i] < t[i + 1]
                  /\ \A i \in 1..(n - 2) : t[i + 1] - t[i] = t[2] - t[1]
                  /\ Abs((t[n] - t[n - 1]) - (t[2] - t[1])) <= n
                  /\ Abs((n - 1) * (t[2] - t[1]) - t_max) <= n
            /\ \A i \in 1..n :
                  G[i] = Yield(SetOfCall.G0,
                               Exponent(t[i], SetOfCall.G0, SetOfCall.k_max, SetOfCall.lambda))

C10_Witness ==
    /\ Returned("simulate")
    /\ call.ratio_name = "Ratio-4_4"
    /\ call.params = None
    /\ call.t_max = Some(3 * ONE)
    /\ call.n_points = Some(4)
    /\ ret.t = <<0, ONE, 2 * ONE, 3 * ONE>>
    /\ Len(ret.G) = 4

====
